---------------------------- MODULE Spec2Model ----------------------------
(***************************************************************************)
(* Treasury-SF basis pipeline (ftsfr/basis_treas_sf).                      *)
(*                                                                         *)
(* DataFrames are records [index, columns, val]: index is the set of row   *)
(* labels, columns the set of column names, val[c][r] the cell.  A cell is *)
(* a sequence of length <= 1: <<>> is NaN, <<v>> holds v.  Rates are in    *)
(* hundredths of a percent (450 is 4.50%), so a basis of 2000 is 20.00 bp. *)
(* Strings are sequences of tokens ("USGG2YR Index_PX_LAST" is             *)
(* <<"USGG2YR", " ", "Index", "_", "PX_LAST">>), so that split(), "in" and *)
(* f-strings are computed rather than assumed.  Dates are day numbers; the *)
(* index of a frame is kept in ascending date order, as Bloomberg returns  *)
(* it, so the set of dates with the order of the integers stands for it.   *)
(***************************************************************************)
EXTENDS Integers, Sequences, FiniteSets, TLC

\* Number of business days in the modelled history.
MaxDate == 3

Dates == 1..MaxDate

NaN == <<>>

IsNaN(x) == x = NaN

None == <<>>

EmptyFrame == [index |-> {}, columns |-> {}, val |-> <<>>]

--------------------------------------------------------------------------
(* Strings as token sequences *)

\* needle in col
Contains(col, needle) ==
    \E i \in 1..(Len(col) - Len(needle) + 1) :
        SubSeq(col, i, i + Len(needle) - 1) = needle

\* col.split()[0]
SplitFirst(col) ==
    IF \E i \in 1..Len(col) : col[i] = " "
    THEN SubSeq(col, 1, (CHOOSE i \in 1..Len(col) :
                            /\ col[i] = " "
                            /\ \A j \in 1..(i - 1) : col[j] # " ") - 1)
    ELSE col

\* tenor.replace("Treasury_SF_", "")
StripPrefix(col, prefix) ==
    IF Len(col) >= Len(prefix) /\ SubSeq(col, 1, Len(prefix)) = prefix
    THEN SubSeq(col, Len(prefix) + 1, Len(col))
    ELSE col

--------------------------------------------------------------------------
(* calc_treasury_sf_basis.py: module constants *)

TREASURY_MAPPING ==
    (<<"USGG2YR">> :> <<"2Y">>) @@ (<<"USGG5YR">> :> <<"5Y">>) @@
    (<<"USGG10YR">> :> <<"10Y">>) @@ (<<"USGG20YR">> :> <<"20Y">>) @@
    (<<"USGG30YR">> :> <<"30Y">>)

\* SF_MAPPING (an identifier cannot start with SF_)
SFMAPPING ==
    (<<"USOSFR2">> :> <<"2Y">>) @@ (<<"USOSFR5">> :> <<"5Y">>) @@
    (<<"USOSFR10">> :> <<"10Y">>) @@ (<<"USOSFR20">> :> <<"20Y">>) @@
    (<<"USOSFR30">> :> <<"30Y">>)

OUTPUT_COLUMNS ==
    [t \in {<<"2Y">>, <<"5Y">>, <<"10Y">>, <<"20Y">>, <<"30Y">>} |->
        <<"Treasury", "_", "SF", "_">> \o t]

tenors == << <<"2Y">>, <<"5Y">>, <<"10Y">>, <<"20Y">>, <<"30Y">> >>

TenorSet == {tenors[i] : i \in 1..Len(tenors)}

IndexCol == <<"index">>

PX_LAST == <<"_", "PX_LAST">>

--------------------------------------------------------------------------
(* pandas operations used by the pipeline *)

\* df.set_index("index"): the dates of the "index" column become the labels.
SetIndex(df) ==
    LET newIndex == {df.val[IndexCol][r][1] : r \in df.index}
        rowOf(d) == CHOOSE r \in df.index : df.val[IndexCol][r] = <<d>>
        newCols  == df.columns \ {IndexCol}
    IN  [index   |-> newIndex,
         columns |-> newCols,
         val     |-> [c \in newCols |-> [d \in newIndex |-> df.val[c][rowOf(d)]]]]

\* df.rename(columns=new_cols): columns outside the mapping keep their name.
Rename(df, new_cols) ==
    LET name(c) == IF c \in DOMAIN new_cols THEN new_cols[c] ELSE c
        newCols == {name(c) : c \in df.columns}
        old(n)  == CHOOSE c \in df.columns : name(c) = n
    IN  [index   |-> df.index,
         columns |-> newCols,
         val     |-> [n \in newCols |-> df.val[old(n)]]]

\* MergeInner with how="left": every left row is kept, right cells are NaN
\* where the right table has no such row.
MergeLeft(left, right) ==
    LET both    == left.columns \cap right.columns
        lname(c) == IF c \in both THEN c \o <<"_x">> ELSE c
        rname(c) == IF c \in both THEN c \o <<"_y">> ELSE c
        lcols   == {lname(c) : c \in left.columns}
        rcols   == {rname(c) : c \in right.columns}
        cell(n, d) ==
            IF n \in lcols
            THEN left.val[CHOOSE c \in left.columns : lname(c) = n][d]
            ELSE IF d \in right.index
                 THEN right.val[CHOOSE c \in right.columns : rname(c) = n][d]
                 ELSE NaN
    IN  [index   |-> left.index,
         columns |-> lcols \cup rcols,
         val     |-> [n \in lcols \cup rcols |-> [d \in left.index |-> cell(n, d)]]]

\* MergeInner with how="outer": the rows of either table.
MergeOuter(left, right) ==
    LET both    == left.columns \cap right.columns
        lname(c) == IF c \in both THEN c \o <<"_x">> ELSE c
        rname(c) == IF c \in both THEN c \o <<"_y">> ELSE c
        lcols   == {lname(c) : c \in left.columns}
        rcols   == {rname(c) : c \in right.columns}
        idx     == left.index \cup right.index
        cell(n, d) ==
            IF n \in lcols
            THEN IF d \in left.index
                 THEN left.val[CHOOSE c \in left.columns : lname(c) = n][d]
                 ELSE NaN
            ELSE IF d \in right.index
                 THEN right.val[CHOOSE c \in right.columns : rname(c) = n][d]
                 ELSE NaN
    IN  [index   |-> idx,
         columns |-> lcols \cup rcols,
         val     |-> [n \in lcols \cup rcols |-> [d \in idx |-> cell(n, d)]]]

\* left.merge(right, left_index=True, right_index=True, how="inner"); a column
\* name both sides carry gets pandas' default suffixes "_x" and "_y".
MergeInner(left, right) ==
    LET both    == left.columns \cap right.columns
        lname(c) == IF c \in both THEN c \o <<"_x">> ELSE c
        rname(c) == IF c \in both THEN c \o <<"_y">> ELSE c
        lcols   == {lname(c) : c \in left.columns}
        rcols   == {rname(c) : c \in right.columns}
        idx     == left.index \cap right.index
        src(n)  == IF n \in lcols
                   THEN left.val[CHOOSE c \in left.columns : lname(c) = n]
                   ELSE right.val[CHOOSE c \in right.columns : rname(c) = n]
    IN  [index   |-> idx,
         columns |-> lcols \cup rcols,
         val     |-> [n \in lcols \cup rcols |-> [d \in idx |-> src(n)[d]]]]

\* LocUpTo with the end label excluded.
LocBefore(df, date) ==
    LET idx == {d \in df.index : d < date}
    IN  [index   |-> idx,
         columns |-> df.columns,
         val     |-> [c \in df.columns |-> [d \in idx |-> df.val[c][d]]]]

\* df.loc[:date]: label slice, both ends inclusive.
LocUpTo(df, date) ==
    LET idx == {d \in df.index : d <= date}
    IN  [index   |-> idx,
         columns |-> df.columns,
         val     |-> [c \in df.columns |-> [d \in idx |-> df.val[c][d]]]]

\* df[cols].copy()
Select(df, cols) ==
    [index   |-> df.index,
     columns |-> cols,
     val     |-> [c \in cols |-> df.val[c]]]

\* df[name] = series
WithColumn(df, name, series) ==
    [index   |-> df.index,
     columns |-> df.columns \cup {name},
     val     |-> [c \in df.columns \cup {name} |->
                    IF c = name THEN series ELSE df.val[c]]]

\* FfillSeries with limit=1: only the first NaN after a valid value is filled.
FfillSeriesLimit1(s) ==
    [d \in DOMAIN s |->
        LET above == {p \in DOMAIN s : p < d}
        IN  IF ~IsNaN(s[d]) \/ above = {} THEN s[d]
            ELSE s[CHOOSE p \in above : \A q \in above : q <= p]]

\* FfillSeries as bfill(): a NaN takes the next valid value below it.
FfillSeriesBackward(s) ==
    [d \in DOMAIN s |->
        LET later == {p \in DOMAIN s : p >= d /\ ~IsNaN(s[p])}
        IN  IF later = {} THEN NaN
            ELSE s[CHOOSE p \in later : \A q \in later : p <= q]]

\* Series.ffill(): a NaN takes the last valid value above it, if there is one.
FfillSeries(s) ==
    [d \in DOMAIN s |->
        LET prior == {p \in DOMAIN s : p <= d /\ ~IsNaN(s[p])}
        IN  IF prior = {} THEN NaN
            ELSE s[CHOOSE p \in prior : \A q \in prior : q <= p]]

\* DataFrame.ffill(): column by column.
Ffill(df) ==
    [index   |-> df.index,
     columns |-> df.columns,
     val     |-> [c \in df.columns |-> FfillSeries(df.val[c])]]

\* BasisSeries left in percentage points: the conversion to basis points is
\* missing.
BasisSeriesUnscaled(treas, sf) ==
    [d \in DOMAIN treas |->
        IF IsNaN(treas[d]) \/ IsNaN(sf[d]) THEN NaN
        ELSE <<treas[d][1] - sf[d][1]>>]

\* (a - b) * 100 on two aligned series; NaN propagates through arithmetic.
BasisSeries(treas, sf) ==
    [d \in DOMAIN treas |->
        IF IsNaN(treas[d]) \/ IsNaN(sf[d]) THEN NaN
        ELSE <<(treas[d][1] - sf[d][1]) * 100>>]

--------------------------------------------------------------------------
(* pull_bbg_treasury_sf.py: what the Data Puller stores *)

\* df.reset_index(): the dates move to a column "index", rows get 0..n-1.
ResetIndex(df) ==
    LET n       == Cardinality(df.index)
        dateOf(r) == CHOOSE d \in df.index :
                        Cardinality({e \in df.index : e < d}) = r
    IN  [index   |-> 0..(n - 1),
         columns |-> df.columns \cup {IndexCol},
         val     |-> [c \in df.columns \cup {IndexCol} |->
                        [r \in 0..(n - 1) |->
                            IF c = IndexCol THEN <<dateOf(r)>>
                            ELSE df.val[c][dateOf(r)]]]]

\* process_bloomberg_df: a non-empty response has (ticker, field) column
\* tuples, flattened to f"{t[0]}_{t[1]}", and its index reset; an empty one
\* is returned as it came.
process_bloomberg_df(df) ==
    IF df.index # {} /\ df.columns # {}
    THEN LET flat == [t \in df.columns |-> t[1] \o <<"_">> \o t[2]]
         IN  ResetIndex([index   |-> df.index,
                         columns |-> {flat[t] : t \in df.columns},
                         val     |-> [c \in {flat[t] : t \in df.columns} |->
                                        df.val[CHOOSE t \in df.columns : flat[t] = c]]])
    ELSE df

--------------------------------------------------------------------------
(* calc_treasury_sf_basis.py *)

\* clean_columns(df, mapping, suffix)
clean_columns(df, mapping, suffix) ==
    LET renamed  == {col \in df.columns :
                        Contains(col, PX_LAST) /\ SplitFirst(col) \in DOMAIN mapping}
        new_cols == [col \in renamed |-> mapping[SplitFirst(col)] \o <<"_">> \o suffix]
    IN  Rename(df, new_cols)

\* prepare_data(treasury_df, sf_df)
prepare_data(t_df, s_df) ==
    LET t1 == IF IndexCol \in t_df.columns THEN SetIndex(t_df) ELSE t_df
        s1 == IF IndexCol \in s_df.columns THEN SetIndex(s_df) ELSE s_df
    IN  MergeInner(clean_columns(t1, TREASURY_MAPPING, <<"Treasury">>),
                   clean_columns(s1, SFMAPPING, <<"SF">>))

\* The body of the loop of compute_treasury_sf_basis for tenors[i].
ComputeTenor(df, i) ==
    LET tenor      == tenors[i]
        treas_col  == tenor \o <<"_", "Treasury">>
        sf_col     == tenor \o <<"_", "SF">>
        output_col == OUTPUT_COLUMNS[tenor]
    IN  IF treas_col \in df.columns /\ sf_col \in df.columns
        THEN WithColumn(df, output_col, BasisSeries(df.val[treas_col], df.val[sf_col]))
        ELSE df

RECURSIVE ComputeFrom(_, _)
ComputeFrom(df, i) ==
    IF i > Len(tenors) THEN df ELSE ComputeFrom(ComputeTenor(df, i), i + 1)

\* compute_treasury_sf_basis(df_merged)
compute_treasury_sf_basis(df) == ComputeFrom(df, 1)

\* pd.Timestamp(end_date).date(): the calendar day of the end_date string.
TimestampDate(end_date) == end_date[1]

\* Lines 160-163: the optional truncation; None and "" are both falsy.
Truncate(df, end_date) ==
    IF end_date # None THEN LocUpTo(df, TimestampDate(end_date)) ELSE df

\* ExtractBasis without the column subsetting.
ExtractAll(df) == df

\* Lines 168-170: the basis columns that exist, copied out.
ExtractBasis(df) ==
    Select(df, {OUTPUT_COLUMNS[t] : t \in DOMAIN OUTPUT_COLUMNS} \cap df.columns)

\* calculate_treasury_sf_basis(end_date, data_dir), after the two loads.
calculate_treasury_sf_basis(t_df, s_df, end_date) ==
    Ffill(ExtractBasis(compute_treasury_sf_basis(
        Truncate(prepare_data(t_df, s_df), end_date))))

--------------------------------------------------------------------------
(* Market data: what blp.bdh answers *)

USGG2YR  == <<"USGG2YR", " ", "Index">>
USGG5YR  == <<"USGG5YR", " ", "Index">>
USGG10YR == <<"USGG10YR", " ", "Index">>
USGG20YR == <<"USGG20YR", " ", "Index">>
USGG30YR == <<"USGG30YR", " ", "Index">>
USOSFR2  == <<"USOSFR2", " ", "Curncy">>
USOSFR5  == <<"USOSFR5", " ", "Curncy">>
USOSFR10 == <<"USOSFR10", " ", "Curncy">>
USOSFR20 == <<"USOSFR20", " ", "Curncy">>
USOSFR30 == <<"USOSFR30", " ", "Curncy">>
\* A ticker neither mapping knows (the 3-month bill).
USGG3M   == <<"USGG3M", " ", "Index">>

treasury_tickers == {USGG2YR, USGG5YR, USGG10YR, USGG20YR, USGG30YR}

sf_tickers == {USOSFR2, USOSFR5, USOSFR10, USOSFR20, USOSFR30}

\* PX_LAST of a ticker on day d, in hundredths of a percent.  The 2Y quotes
\* are 4.50% and 4.60% (Treasury) and 4.30% (SF) on days 1 and 2.
Quote(ticker, d) ==
    CASE ticker = USGG2YR  -> 440 + 10 * d
      [] ticker = USGG5YR  -> 455 + 6 * d
      [] ticker = USGG10YR -> 470 + 5 * d
      [] ticker = USGG20YR -> 490 + 4 * d
      [] ticker = USGG30YR -> 495 + 9 * d
      [] ticker = USOSFR2  -> 427 + 3 * d
      [] ticker = USOSFR5  -> 450 + 1 * d
      [] ticker = USOSFR10 -> 460 + 2 * d
      [] ticker = USOSFR20 -> 468 + 8 * d
      [] ticker = USOSFR30 -> 466 + 11 * d
      [] OTHER             -> 400 + d

\* The response of blp.bdh(tickers, ["PX_LAST"], ...): rows idx, one
\* (ticker, field) column per ticker, no quote for gapTicker on gapDates.
\* Without rows or without tickers the response is the empty DataFrame.
BdhResponse(idx, tickers, gapTicker, gapDates) ==
    IF idx = {} \/ tickers = {} THEN EmptyFrame
    ELSE [index   |-> idx,
          columns |-> {<<t, <<"PX_LAST">> >> : t \in tickers},
          val     |-> [c \in {<<t, <<"PX_LAST">> >> : t \in tickers} |->
                         [d \in idx |->
                            IF c[1] = gapTicker /\ d \in gapDates THEN NaN
                            ELSE <<Quote(c[1], d)>>]]]

--------------------------------------------------------------------------
(* The Basis Calculator on stored rate tables *)

VARIABLES
    \* one call of calculate_treasury_sf_basis
    treasury_df,       \* treasury_yields.parquet as loaded
    sf_df,             \* sf_rates.parquet as loaded
    end_date,          \* calculate_treasury_sf_basis's argument
    df_merged,         \* what prepare_data returned
    df_computed,       \* what compute_treasury_sf_basis returned
    basis_df,          \* what calculate_treasury_sf_basis returned
    stage,             \* "off", "loaded", then "returned"
    \* the scripts run one after another on the data directory
    treasury_parquet,  \* _data/treasury_yields.parquet: <<>> or <<frame>>
    sf_parquet,        \* _data/sf_rates.parquet
    basis_parquet,     \* _data/treasury_sf_basis.parquet
    pc,                \* where the running script is
    data_treasury,     \* data["treasury_yields"] / treasury_df in memory
    data_sf,           \* data["sf_rates"] / sf_df in memory
    bdh_calls,         \* blp.bdh calls made by the running pull
    run_treasury,      \* treasury_yields.parquet when the running script started
    run_sf,            \* sf_rates.parquet when the running script started
    prev_basis,        \* treasury_sf_basis.parquet before the last write of it
    fresh_rates,       \* a rate table was written since the basis was last written
    rerun,             \* the last basis write found fresh_rates false
    \* one call of plot_figure
    plot_df,           \* basis_df argument
    plot_start_date,   \* start_date argument
    plot_end_date,     \* end_date argument
    fig,               \* fig.data: the traces, in the order added
    html_written,      \* the file at save_path exists
    plot_stage         \* "off", "called", then "plotted"

calcVars == <<treasury_df, sf_df, end_date, df_merged, df_computed, basis_df, stage>>

runVars == <<treasury_parquet, sf_parquet, basis_parquet, pc, data_treasury, data_sf,
             bdh_calls, run_treasury, run_sf, prev_basis, fresh_rates, rerun>>

plotVars == <<plot_df, plot_start_date, plot_end_date, fig, html_written, plot_stage>>

vars == <<calcVars, runVars, plotVars>>

\* No call of calculate_treasury_sf_basis is being followed.
CalcOff ==
    /\ treasury_df = EmptyFrame /\ sf_df = EmptyFrame /\ end_date = None
    /\ df_merged = EmptyFrame /\ df_computed = EmptyFrame /\ basis_df = EmptyFrame
    /\ stage = "off"

\* No script has run: the data directory is empty.
RunOff ==
    /\ treasury_parquet = <<>> /\ sf_parquet = <<>> /\ basis_parquet = <<>>
    /\ pc = "idle"
    /\ data_treasury = EmptyFrame /\ data_sf = EmptyFrame
    /\ bdh_calls = 0
    /\ run_treasury = <<>> /\ run_sf = <<>>
    /\ prev_basis = <<>>
    /\ fresh_rates = TRUE
    /\ rerun = FALSE

\* No call of plot_figure is being followed.
PlotOff ==
    /\ plot_df = EmptyFrame /\ plot_start_date = None /\ plot_end_date = None
    /\ fig = <<>> /\ html_written = FALSE /\ plot_stage = "off"

\* The stored tables the calculator is run on: Treasury rows and SF rows are
\* any two sets of days; each table holds any of the 2Y and 10Y tickers; the
\* unmapped ticker is in neither table, in the Treasury table, or in both;
\* on days both tables have, the Treasury 10Y and the SF 2Y quote may be
\* missing (NaN in a row that exists).
StoredPairs ==
    {<<process_bloomberg_df(BdhResponse(q[1], q[3] \cup q[5][1], USGG10YR, q[6])),
       process_bloomberg_df(BdhResponse(q[2], q[4] \cup q[5][2], USOSFR2, q[7]))>> :
        q \in {r \in (SUBSET Dates) \X (SUBSET Dates)
                   \X (SUBSET {USGG2YR, USGG10YR}) \X (SUBSET {USOSFR2, USOSFR10})
                   \X {<<{}, {}>>, <<{USGG3M}, {}>>, <<{USGG3M}, {USGG3M}>>}
                   \X (SUBSET Dates) \X (SUBSET Dates) :
                /\ r[6] \subseteq (r[1] \cap r[2])
                /\ r[7] \subseteq (r[1] \cap r[2])
                /\ (r[6] # {} => USGG10YR \in r[3])
                /\ (r[7] # {} => USOSFR2 \in r[4])}}

EndDateArgs == {None} \cup {<<d>> : d \in 0..MaxDate}

InitBasis ==
    /\ \E pair \in StoredPairs : treasury_df = pair[1] /\ sf_df = pair[2]
    /\ end_date = None
    /\ df_merged = EmptyFrame
    /\ df_computed = EmptyFrame
    /\ basis_df = EmptyFrame
    /\ stage = "loaded"
    /\ RunOff
    /\ PlotOff

\* One call of calculate_treasury_sf_basis(end_date=e).
Calculate ==
    /\ stage = "loaded"
    /\ \E e \in EndDateArgs :
        /\ end_date' = e
        /\ df_merged' = prepare_data(treasury_df, sf_df)
        /\ df_computed' = compute_treasury_sf_basis(Truncate(df_merged', e))
        /\ basis_df' = Ffill(ExtractBasis(df_computed'))
    /\ stage' = "returned"
    /\ UNCHANGED <<treasury_df, sf_df, runVars, plotVars>>

NextBasis == Calculate

SpecBasis == InitBasis /\ [][NextBasis]_vars

--------------------------------------------------------------------------
(* Reading the stored tables directly, for the statements below *)

\* The flat column of a ticker in a stored table.
StoredColumn(ticker) == ticker \o <<"_", "PX_LAST">>

\* The days a stored table has a row for.
RowDates(df) ==
    IF IndexCol \in df.columns
    THEN {df.val[IndexCol][r][1] : r \in df.index}
    ELSE {}

HasTicker(df, ticker) == StoredColumn(ticker) \in df.columns

\* The cell of a ticker on a day of a stored table.
StoredCell(df, ticker, d) ==
    df.val[StoredColumn(ticker)][CHOOSE r \in df.index : df.val[IndexCol][r] = <<d>>]

TreasuryTickerOf(tenor) ==
    CASE tenor = <<"2Y">>  -> USGG2YR
      [] tenor = <<"5Y">>  -> USGG5YR
      [] tenor = <<"10Y">> -> USGG10YR
      [] tenor = <<"20Y">> -> USGG20YR
      [] tenor = <<"30Y">> -> USGG30YR

SFTickerOf(tenor) ==
    CASE tenor = <<"2Y">>  -> USOSFR2
      [] tenor = <<"5Y">>  -> USOSFR5
      [] tenor = <<"10Y">> -> USOSFR10
      [] tenor = <<"20Y">> -> USOSFR20
      [] tenor = <<"30Y">> -> USOSFR30

BasisColumn(tenor) == <<"Treasury", "_", "SF", "_">> \o tenor

\* The tenors whose mapped ticker column both stored tables have.
TenorsInBoth == {t \in TenorSet : HasTicker(treasury_df, TreasuryTickerOf(t))
                                  /\ HasTicker(sf_df, SFTickerOf(t))}

SharedDates == RowDates(treasury_df) \cap RowDates(sf_df)

\* The cell of column c on day d of a frame, NaN included; the pair <<0, 0>>,
\* which is no cell, when the frame has no such column or row.
At(df, c, d) ==
    IF c \in df.columns /\ d \in df.index THEN df.val[c][d] ELSE <<0, 0>>

WithinEnd(d) == end_date = None \/ d <= end_date[1]

--------------------------------------------------------------------------
(* C1 *)

\* C1: for every tenor whose mapped column is in both inputs and every shared
\* date on which both rates have a value, the basis computed for that tenor
\* and date is (treasury_value - sf_value) * 100 of that tenor and date.
C1_BasisIsScaledDifference ==
    stage = "returned" =>
        \A t \in TenorsInBoth : \A d \in SharedDates :
            LET tv == StoredCell(treasury_df, TreasuryTickerOf(t), d)
                sv == StoredCell(sf_df, SFTickerOf(t), d)
            IN  (WithinEnd(d) /\ ~IsNaN(tv) /\ ~IsNaN(sv)) =>
                    At(df_computed, BasisColumn(t), d) = <<(tv[1] - sv[1]) * 100>>

\* Both tenors computed on a shared day from different quotes.
C1_Witness ==
    /\ stage = "returned"
    /\ TenorsInBoth = {<<"2Y">>, <<"10Y">>}
    /\ At(df_computed, BasisColumn(<<"2Y">>), 1) = <<2000>>
    /\ At(df_computed, BasisColumn(<<"10Y">>), 2) = <<1600>>
    /\ At(df_computed, BasisColumn(<<"2Y">>), 3) = <<3400>>

--------------------------------------------------------------------------
(* C2 *)

\* C2: a date present in only one of the two inputs is absent from the table
\* prepare_data returns and from the table calculate_treasury_sf_basis returns.
C2_StrictInnerJoin ==
    stage = "returned" =>
        \A d \in (RowDates(treasury_df) \cup RowDates(sf_df)) \ SharedDates :
            d \notin df_merged.index /\ d \notin basis_df.index

\* Day 2 is in the Treasury table only, between two shared days, and the
\* basis of the days around it was computed.
C2_Witness ==
    /\ stage = "returned"
    /\ end_date = None
    /\ RowDates(treasury_df) = {1, 2, 3}
    /\ RowDates(sf_df) = {1, 3}
    /\ basis_df.index = {1, 3}
    /\ At(basis_df, BasisColumn(<<"2Y">>), 3) = <<3400>>

--------------------------------------------------------------------------
(* C3 *)

\* The valid days of a computed basis column at or before day d.
ValidUpTo(c, d) == {p \in df_computed.index : p <= d /\ ~IsNaN(df_computed.val[c][p])}

\* C3: in every returned column, a day before the first valid basis stays
\* empty, a computed value is returned unaltered, and an empty day after the
\* first valid one gets the value of the latest earlier valid day, whatever
\* the length of the gap.
C3_ForwardFillOnly ==
    stage = "returned" =>
        \A c \in basis_df.columns : \A d \in basis_df.index :
            LET raw   == df_computed.val[c][d]
                prior == ValidUpTo(c, d)
            IN  /\ ~IsNaN(raw) => basis_df.val[c][d] = raw
                /\ (IsNaN(raw) /\ prior = {}) => IsNaN(basis_df.val[c][d])
                /\ (IsNaN(raw) /\ prior # {}) =>
                       \E p \in prior :
                           /\ \A q \in prior : q <= p
                           /\ basis_df.val[c][d] = df_computed.val[c][p]

\* The 2Y basis starts empty and is filled after its first value; the 10Y
\* basis is carried over a gap of two days.
C3_Witness ==
    /\ stage = "returned"
    /\ At(df_computed, BasisColumn(<<"2Y">>), 1) = NaN
    /\ At(df_computed, BasisColumn(<<"2Y">>), 2) = <<2700>>
    /\ At(df_computed, BasisColumn(<<"2Y">>), 3) = NaN
    /\ At(basis_df, BasisColumn(<<"2Y">>), 1) = NaN
    /\ At(basis_df, BasisColumn(<<"2Y">>), 3) = <<2700>>
    /\ At(df_computed, BasisColumn(<<"10Y">>), 1) = <<1300>>
    /\ At(df_computed, BasisColumn(<<"10Y">>), 2) = NaN
    /\ At(df_computed, BasisColumn(<<"10Y">>), 3) = NaN
    /\ At(basis_df, BasisColumn(<<"10Y">>), 3) = <<1300>>

--------------------------------------------------------------------------
(* C4 *)

\* C4: the columns of the returned table are exactly the Treasury_SF_<tenor>
\* of the tenors that have a mapped ticker column in both inputs.
C4_ColumnsAreTenorsInBoth ==
    stage = "returned" =>
        basis_df.columns = {BasisColumn(t) : t \in TenorsInBoth}

\* The 2Y tenor is in the Treasury table only and both tables carry the
\* unmapped ticker: the output has the 10Y column alone.
C4_Witness ==
    /\ stage = "returned"
    /\ HasTicker(treasury_df, USGG2YR) /\ HasTicker(treasury_df, USGG10YR)
    /\ ~HasTicker(sf_df, USOSFR2) /\ HasTicker(sf_df, USOSFR10)
    /\ HasTicker(treasury_df, USGG3M) /\ HasTicker(sf_df, USGG3M)
    /\ basis_df.index # {}
    /\ basis_df.columns = {BasisColumn(<<"10Y">>)}

--------------------------------------------------------------------------
(* C5 *)

\* Treasury = {2Y: 4.50% on day 1, 4.60% on day 2}.
ScenarioTreasury ==
    treasury_df = process_bloomberg_df(BdhResponse({1, 2}, {USGG2YR}, USGG10YR, {}))

\* SF = {2Y: 4.30% on day 1}, with no row for day 2.
ScenarioSFRowAbsent ==
    sf_df = process_bloomberg_df(BdhResponse({1}, {USOSFR2}, USOSFR2, {}))

\* SF = {2Y: 4.30% on day 1}, with a row for day 2 whose 2Y cell is NaN.
ScenarioSFCellEmpty ==
    sf_df = process_bloomberg_df(BdhResponse({1, 2}, {USOSFR2}, USOSFR2, {2}))

\* {day 1: 20.0 bps, day 2: 20.0 bps}
ScenarioCarried ==
    /\ basis_df.index = {1, 2}
    /\ basis_df.columns = {BasisColumn(<<"2Y">>)}
    /\ At(basis_df, BasisColumn(<<"2Y">>), 1) = <<2000>>
    /\ At(basis_df, BasisColumn(<<"2Y">>), 2) = <<2000>>

\* {day 1: 20.0 bps}
ScenarioDayOneOnly ==
    /\ basis_df.index = {1}
    /\ basis_df.columns = {BasisColumn(<<"2Y">>)}
    /\ At(basis_df, BasisColumn(<<"2Y">>), 1) = <<2000>>

\* C5 as stated: whichever way the SF 2Y rate is missing on day 2, the
\* output is {day 1: 20.0 bps, day 2: 20.0 bps carried forward}.
C5_ScenarioAsStated ==
    (/\ stage = "returned"
     /\ end_date = None
     /\ ScenarioTreasury
     /\ (ScenarioSFRowAbsent \/ ScenarioSFCellEmpty)) => ScenarioCarried

\* C5 amended: the output is {day 1: 20.0, day 2: 20.0 carried forward} when
\* the SF table has a row for day 2 with an empty 2Y cell, and {day 1: 20.0}
\* alone when the SF table has no row for day 2.
C5_ScenarioByRepresentation ==
    (stage = "returned" /\ end_date = None /\ ScenarioTreasury) =>
        /\ ScenarioSFCellEmpty => ScenarioCarried
        /\ ScenarioSFRowAbsent => ScenarioDayOneOnly

\* The scenario with the empty cell, computed: day 2 was NaN before the fill.
C5_Witness ==
    /\ stage = "returned"
    /\ end_date = None
    /\ ScenarioTreasury
    /\ ScenarioSFCellEmpty
    /\ At(df_computed, BasisColumn(<<"2Y">>), 2) = NaN
    /\ At(basis_df, BasisColumn(<<"2Y">>), 2) = <<2000>>

--------------------------------------------------------------------------
(* C7 *)

\* C7: when the two inputs share no date, the call is defined for every
\* end_date (no step of it fails on the empty merge) and the table it
\* returns has zero rows.
C7_NoCommonDateGivesEmpty ==
    SharedDates = {} =>
        /\ stage = "loaded" =>
               \A e \in EndDateArgs :
                   calculate_treasury_sf_basis(treasury_df, sf_df, e).index = {}
        /\ stage = "returned" => basis_df.index = {}

\* Both tables have rows and the 2Y tenor, on different days.
C7_Witness ==
    /\ stage = "returned"
    /\ RowDates(treasury_df) = {1, 2}
    /\ RowDates(sf_df) = {3}
    /\ <<"2Y">> \in TenorsInBoth
    /\ basis_df.index = {}
    /\ BasisColumn(<<"2Y">>) \in basis_df.columns

--------------------------------------------------------------------------
(* C8 *)

\* C8: the table returned with an end_date is the table returned without
\* one, restricted to the dates <= end_date.
C8_TruncationCommutes ==
    (stage = "returned" /\ end_date # None) =>
        LET full == calculate_treasury_sf_basis(treasury_df, sf_df, None)
            kept == {d \in full.index : d <= end_date[1]}
        IN  /\ basis_df.index = kept
            /\ basis_df.columns = full.columns
            /\ \A c \in full.columns : \A d \in kept :
                   basis_df.val[c][d] = full.val[c][d]

\* end_date is day 2 of three shared days; day 2 itself is returned, filled
\* from day 1, and day 3, which has a quote, is cut.
C8_Witness ==
    /\ stage = "returned"
    /\ end_date = <<2>>
    /\ SharedDates = {1, 2, 3}
    /\ At(df_merged, <<"2Y", "_", "SF">>, 2) = NaN
    /\ At(df_merged, <<"2Y", "_", "SF">>, 3) = <<436>>
    /\ basis_df.index = {1, 2}
    /\ At(basis_df, BasisColumn(<<"2Y">>), 2) = <<2000>>

--------------------------------------------------------------------------
(* The scripts: pull_bbg_treasury_sf.main and calc_treasury_sf_basis.main *)

\* A script can be started when none is running.
Ended == {"idle", "pull_done", "pull_failed", "calc_done", "calc_failed"}

\* What Bloomberg has on the day of a pull: the rows of days 1..e of all the
\* tickers asked for (nothing at all for e = 0).
BdhToday(tickers) ==
    {BdhResponse(1..e, tickers, <<>>, {}) : e \in 0..MaxDate}

\* df.to_parquet(path) keeping what the file held: rows and columns of the
\* old table that the new one lacks survive.
ToParquetKeeping(file, df) ==
    IF file = <<>> THEN <<df>>
    ELSE LET old  == file[1]
             idx  == old.index \cup df.index
             cols == old.columns \cup df.columns
         IN  << [index   |-> idx,
                 columns |-> cols,
                 val     |-> [c \in cols |-> [d \in idx |->
                                IF c \in df.columns /\ d \in df.index
                                THEN df.val[c][d]
                                ELSE IF c \in old.columns /\ d \in old.index
                                     THEN old.val[c][d]
                                     ELSE NaN]]] >>

\* df.to_parquet(path): the file holds df and nothing of its old content.
ToParquet(file, df) == <<df>>

\* python pull_bbg_treasury_sf.py starts.
StartPull ==
    /\ pc \in Ended
    /\ pc' = "pull_treasury"
    /\ run_treasury' = treasury_parquet
    /\ run_sf' = sf_parquet
    /\ bdh_calls' = 0
    /\ data_treasury' = EmptyFrame
    /\ data_sf' = EmptyFrame
    /\ UNCHANGED <<treasury_parquet, sf_parquet, basis_parquet, prev_basis, rerun, fresh_rates>>
    /\ UNCHANGED <<calcVars, plotVars>>

\* PullTreasuryYields writing treasury_yields.parquet as soon as it has the
\* yields, before the SF rates are asked for.
PullTreasuryYieldsAndSave ==
    /\ pc = "pull_treasury"
    /\ \E resp \in BdhToday(treasury_tickers) :
        /\ data_treasury' = process_bloomberg_df(resp)
        /\ treasury_parquet' = ToParquet(treasury_parquet, data_treasury')
    /\ bdh_calls' = bdh_calls + 1
    /\ pc' = "pull_sf"
    /\ fresh_rates' = TRUE
    /\ UNCHANGED <<sf_parquet, basis_parquet, data_sf, run_treasury, run_sf, prev_basis, rerun>>
    /\ UNCHANGED <<calcVars, plotVars>>

\* pull_treasury_sf_data, lines 75-82: blp.bdh answers for the Treasury tickers.
PullTreasuryYields ==
    /\ pc = "pull_treasury"
    /\ \E resp \in BdhToday(treasury_tickers) :
        data_treasury' = process_bloomberg_df(resp)
    /\ bdh_calls' = bdh_calls + 1
    /\ pc' = "pull_sf"
    /\ UNCHANGED <<treasury_parquet, sf_parquet, basis_parquet, data_sf,
                   run_treasury, run_sf, prev_basis, rerun, fresh_rates>>
    /\ UNCHANGED <<calcVars, plotVars>>

\* The same call raises: nothing catches it, the script ends.
PullTreasuryYieldsFails ==
    /\ pc = "pull_treasury"
    /\ bdh_calls' = bdh_calls + 1
    /\ pc' = "pull_failed"
    /\ UNCHANGED <<treasury_parquet, sf_parquet, basis_parquet, data_treasury, data_sf,
                   run_treasury, run_sf, prev_basis, rerun, fresh_rates>>
    /\ UNCHANGED <<calcVars, plotVars>>

\* pull_treasury_sf_data, lines 86-93: blp.bdh answers for the SF tickers.
PullSFRates ==
    /\ pc = "pull_sf"
    /\ \E resp \in BdhToday(sf_tickers) :
        data_sf' = process_bloomberg_df(resp)
    /\ bdh_calls' = bdh_calls + 1
    /\ pc' = "save_treasury"
    /\ UNCHANGED <<treasury_parquet, sf_parquet, basis_parquet, data_treasury,
                   run_treasury, run_sf, prev_basis, rerun, fresh_rates>>
    /\ UNCHANGED <<calcVars, plotVars>>

\* The same call raises: nothing catches it, the script ends.
PullSFRatesFails ==
    /\ pc = "pull_sf"
    /\ bdh_calls' = bdh_calls + 1
    /\ pc' = "pull_failed"
    /\ UNCHANGED <<treasury_parquet, sf_parquet, basis_parquet, data_treasury, data_sf,
                   run_treasury, run_sf, prev_basis, rerun, fresh_rates>>
    /\ UNCHANGED <<calcVars, plotVars>>

\* main, line 120
SaveTreasuryYields ==
    /\ pc = "save_treasury"
    /\ treasury_parquet' = ToParquet(treasury_parquet, data_treasury)
    /\ fresh_rates' = TRUE
    /\ pc' = "save_sf"
    /\ UNCHANGED <<sf_parquet, basis_parquet, data_treasury, data_sf, bdh_calls,
                   run_treasury, run_sf, prev_basis, rerun>>
    /\ UNCHANGED <<calcVars, plotVars>>

\* main, line 123
SaveSFRates ==
    /\ pc = "save_sf"
    /\ sf_parquet' = ToParquet(sf_parquet, data_sf)
    /\ fresh_rates' = TRUE
    /\ pc' = "pull_done"
    /\ UNCHANGED <<treasury_parquet, basis_parquet, data_treasury, data_sf, bdh_calls,
                   run_treasury, run_sf, prev_basis, rerun>>
    /\ UNCHANGED <<calcVars, plotVars>>

\* python calc_treasury_sf_basis.py starts.
StartCalc ==
    /\ pc \in Ended
    /\ pc' = "calc_load"
    /\ run_treasury' = treasury_parquet
    /\ run_sf' = sf_parquet
    /\ bdh_calls' = 0
    /\ data_treasury' = EmptyFrame
    /\ data_sf' = EmptyFrame
    /\ UNCHANGED <<treasury_parquet, sf_parquet, basis_parquet, prev_basis, rerun, fresh_rates>>
    /\ UNCHANGED <<calcVars, plotVars>>

\* load_treasury_yields and load_sf_rates, lines 154-155.
LoadRates ==
    /\ pc = "calc_load"
    /\ treasury_parquet # <<>> /\ sf_parquet # <<>>
    /\ data_treasury' = treasury_parquet[1]
    /\ data_sf' = sf_parquet[1]
    /\ pc' = "calc_compute"
    /\ UNCHANGED <<treasury_parquet, sf_parquet, basis_parquet, bdh_calls,
                   run_treasury, run_sf, prev_basis, rerun, fresh_rates>>
    /\ UNCHANGED <<calcVars, plotVars>>

\* pd.read_parquet raises FileNotFoundError: nothing catches it.
LoadRatesFails ==
    /\ pc = "calc_load"
    /\ treasury_parquet = <<>> \/ sf_parquet = <<>>
    /\ pc' = "calc_failed"
    /\ UNCHANGED <<treasury_parquet, sf_parquet, basis_parquet, data_treasury, data_sf,
                   bdh_calls, run_treasury, run_sf, prev_basis, fresh_rates, rerun>>
    /\ UNCHANGED <<calcVars, plotVars>>

\* ComputeAndSave as an incremental update: the new basis is laid over what
\* treasury_sf_basis.parquet held.
ComputeAndSaveIncremental ==
    /\ pc = "calc_compute"
    /\ basis_parquet' =
           ToParquetKeeping(basis_parquet,
                            calculate_treasury_sf_basis(data_treasury, data_sf, None))
    /\ prev_basis' = basis_parquet
    /\ rerun' = ~fresh_rates
    /\ fresh_rates' = FALSE
    /\ pc' = "calc_done"
    /\ UNCHANGED <<treasury_parquet, sf_parquet, data_treasury, data_sf, bdh_calls,
                   run_treasury, run_sf>>
    /\ UNCHANGED <<calcVars, plotVars>>

\* The rest of calculate_treasury_sf_basis, and main's line 189.
ComputeAndSave ==
    /\ pc = "calc_compute"
    /\ basis_parquet' =
           ToParquet(basis_parquet,
                     calculate_treasury_sf_basis(data_treasury, data_sf, None))
    /\ prev_basis' = basis_parquet
    /\ rerun' = ~fresh_rates
    /\ fresh_rates' = FALSE
    /\ pc' = "calc_done"
    /\ UNCHANGED <<treasury_parquet, sf_parquet, data_treasury, data_sf, bdh_calls,
                   run_treasury, run_sf>>
    /\ UNCHANGED <<calcVars, plotVars>>

Init == CalcOff /\ RunOff /\ PlotOff

Next ==
    \/ StartPull
    \/ PullTreasuryYields
    \/ PullTreasuryYieldsFails
    \/ PullSFRates
    \/ PullSFRatesFails
    \/ SaveTreasuryYields
    \/ SaveSFRates
    \/ StartCalc
    \/ LoadRates
    \/ LoadRatesFails
    \/ ComputeAndSave

Spec == Init /\ [][Next]_vars

--------------------------------------------------------------------------
(* C9 *)

\* C9: the basis table a calculation run has written is the basis of the
\* Treasury and SF tables as they were stored when that run started, whatever
\* the basis table held before; and when no rate table was written since the
\* basis was last written, the run writes the table that was there already.
C9_BasisRecomputedFromStoredRates ==
    pc = "calc_done" =>
        /\ basis_parquet =
               <<calculate_treasury_sf_basis(run_treasury[1], run_sf[1], None)>>
        /\ rerun => basis_parquet = prev_basis

\* Bloomberg had three days at the first pull and two at the second; the
\* calculation after the second pull wrote a table without day 3.
C9_Witness ==
    /\ pc = "calc_done"
    /\ prev_basis # <<>>
    /\ prev_basis[1].index = {1, 2, 3}
    /\ basis_parquet[1].index = {1, 2}
    /\ Cardinality(basis_parquet[1].columns) = 5

\* The calculation was run twice in a row on the same stored rates.
C9_WitnessRerun ==
    /\ pc = "calc_done"
    /\ rerun
    /\ basis_parquet[1].index = {1, 2}

--------------------------------------------------------------------------
(* C10 *)

\* C10: when a retrieval call of the pull fails the script ends there, each
\* of the two calls having been made at most once, and both stored rate
\* tables are what they were when the script started.
C10_FailedPullWritesNothing ==
    /\ bdh_calls <= 2
    /\ pc = "pull_failed" =>
        /\ treasury_parquet = run_treasury
        /\ sf_parquet = run_sf

\* The SF retrieval failed after Treasury yields that differ from the stored
\* ones had been retrieved.
C10_Witness ==
    /\ pc = "pull_failed"
    /\ bdh_calls = 2
    /\ treasury_parquet # <<>>
    /\ sf_parquet # <<>>
    /\ data_treasury # treasury_parquet[1]
    /\ data_treasury.index # {}

--------------------------------------------------------------------------
(* plot_figure.py *)

\* Line 65: the tenor columns, in plotting order.
plot_tenors ==
    << <<"Treasury", "_", "SF", "_", "2Y">>, <<"Treasury", "_", "SF", "_", "5Y">>,
       <<"Treasury", "_", "SF", "_", "10Y">>, <<"Treasury", "_", "SF", "_", "20Y">>,
       <<"Treasury", "_", "SF", "_", "30Y">> >>

\* pd.to_datetime(x).date(): the calendar day of the argument.
ToDate(x) == x[1]

\* series.loc[a:b], both ends inclusive.
SeriesLoc(series, a, b) ==
    [d \in {x \in DOMAIN series : a <= x /\ x <= b} |-> series[d]]

\* series.loc[a:]
SeriesLocFrom(series, a) ==
    [d \in {x \in DOMAIN series : a <= x} |-> series[d]]

\* series.dropna()
DropNa(series) ==
    [d \in {x \in DOMAIN series : ~IsNaN(series[x])} |-> series[d]]

\* Lines 73-79: the points of one tenor's trace.
TraceSeries(series, start_dt, end_dt) ==
    IF start_dt # None /\ end_dt # None
    THEN DropNa(SeriesLoc(series, start_dt[1], end_dt[1]))
    ELSE IF start_dt # None
         THEN DropNa(SeriesLocFrom(series, start_dt[1]))
         ELSE DropNa(series)

RECURSIVE AddTraces(_, _, _, _, _)
\* Lines 69-88: the loop over the tenors from position i on.
AddTraces(df, start_dt, end_dt, traces, i) ==
    IF i > Len(plot_tenors) THEN traces
    ELSE LET tenor == plot_tenors[i]
         IN  IF tenor \notin df.columns
             THEN AddTraces(df, start_dt, end_dt, traces, i + 1)
             ELSE AddTraces(df, start_dt, end_dt,
                     Append(traces,
                            [name   |-> StripPrefix(tenor, <<"Treasury", "_", "SF", "_">>),
                             points |-> TraceSeries(df.val[tenor], start_dt, end_dt)]),
                     i + 1)

\* plot_figure(basis_df, save_path, start_date, end_date): fig.data
plot_figure(df, start_date, end_date_arg) ==
    LET start_dt == IF start_date # None THEN <<ToDate(start_date)>> ELSE None
        end_dt   == IF end_date_arg # None THEN <<ToDate(end_date_arg)>> ELSE None
    IN  AddTraces(df, start_dt, end_dt, <<>>, 1)

\* A column plot_figure does not know.
OtherColumn == <<"Treasury", "_", "SF", "_", "1Y">>

\* The wide tables plot_figure is called on: any days, any of the 2Y and 10Y
\* basis columns and the unknown column, the 2Y basis empty on any of the days.
PlotFrames ==
    {[index   |-> q[1],
      columns |-> q[2],
      val     |-> [c \in q[2] |-> [d \in q[1] |->
                     IF c = BasisColumn(<<"2Y">>) /\ d \in q[3] THEN NaN
                     ELSE IF c = BasisColumn(<<"2Y">>) THEN <<(13 + 7 * d) * 100>>
                     ELSE IF c = BasisColumn(<<"10Y">>) THEN <<(10 + 3 * d) * 100>>
                     ELSE <<d>>]]] :
        q \in {r \in (SUBSET Dates)
                     \X (SUBSET {BasisColumn(<<"2Y">>), BasisColumn(<<"10Y">>), OtherColumn})
                     \X (SUBSET Dates) :
                 /\ r[3] \subseteq r[1]
                 /\ (r[3] # {} => BasisColumn(<<"2Y">>) \in r[2])}}

PlotDateArgs == {None} \cup {<<d>> : d \in Dates}

InitPlot ==
    /\ plot_df \in PlotFrames
    /\ plot_start_date \in PlotDateArgs
    /\ plot_end_date \in PlotDateArgs
    /\ fig = <<>>
    /\ html_written = FALSE
    /\ plot_stage = "called"
    /\ CalcOff
    /\ RunOff

\* One call of plot_figure, fig.write_html(save_path) included.
PlotFigure ==
    /\ plot_stage = "called"
    /\ fig' = plot_figure(plot_df, plot_start_date, plot_end_date)
    /\ html_written' = TRUE
    /\ plot_stage' = "plotted"
    /\ UNCHANGED <<plot_df, plot_start_date, plot_end_date, calcVars, runVars>>

NextPlot == PlotFigure

SpecPlot == InitPlot /\ [][NextPlot]_vars

--------------------------------------------------------------------------
(* C6 *)

\* The days of a column inside the window, None leaving a side open.
InWindow(d) ==
    /\ plot_start_date = None \/ plot_start_date[1] <= d
    /\ plot_end_date = None \/ d <= plot_end_date[1]

\* C6: the chart has exactly one trace per tenor column of the table, each
\* holding exactly that tenor's non-null points inside the window (None
\* leaving that side open), and the chart file exists.
C6_TracesAreWindowedTenors ==
    plot_stage = "plotted" =>
        LET present == {t \in TenorSet : BasisColumn(t) \in plot_df.columns}
        IN  /\ Len(fig) = Cardinality(present)
            /\ {fig[i].name : i \in 1..Len(fig)} = present
            /\ \A i \in 1..Len(fig) :
                   LET col == plot_df.val[BasisColumn(fig[i].name)]
                       in  == {d \in plot_df.index : InWindow(d) /\ ~IsNaN(col[d])}
                   IN  /\ DOMAIN fig[i].points = in
                       /\ \A d \in in : fig[i].points[d] = col[d]
            /\ html_written

=============================================================================
